---------------------------- MODULE Spec2Model ----------------------------
(***************************************************************************)
(* Model of usr/local/bin/oled-display.py: the OLED status daemon.         *)
(*                                                                         *)
(* Time is counted in units of 0.05 s, so the program's 0.1 s is 2 units,  *)
(* 2 s is 40, 5 s is 100, 10 s is 200 and 21600 s is 432000.               *)
(* Telemetry entries are numbered 0..7 in the order of get_system_info;    *)
(* an entry is carried as its key and the pixel width of its rendered      *)
(* "key: value" text, which is all the program reads from a value.         *)
(* Python dicts and lists are functions over 0-based index sets.           *)
(***************************************************************************)
EXTENDS Integers, Sequences, FiniteSets, TLC

VARIABLES
    pc,               \* position of main()
    conf_file,        \* environment: the contents of CONFIG_FILE
    config,           \* main.config
    time_sync_status, \* main.time_sync_status
    last_sync_time,   \* main.last_sync_time
    attempts,         \* number of runs of the body of "for _ in range(3)"
    device,           \* TRUE once main.device is bound
    bbox,             \* font.getbbox of the sample text as [top, bottom]
    max_lines,        \* main.max_lines
    all_items,        \* group_infos.all_items
    i,                \* group_infos.i
    groups,           \* group_infos.groups
    ret,              \* the call site group_infos returns to
    scroll_pos,       \* main.scroll_pos
    info_groups,      \* main.info_groups
    current_group,    \* main.current_group
    last_scroll_time, \* main.last_scroll_time
    current_time,     \* main.current_time
    now,              \* environment: time.time()
    frame,            \* the (x, y) of every line of the last image drawn
    displayed,        \* TRUE once device.display() was called
    cleared,          \* TRUE once device.clear() was called
    interrupted,      \* TRUE when the last step delivered a KeyboardInterrupt
    ticks,            \* number of time.sleep(0.1) calls of the main loop
    sync_call,        \* history: the last call of sync_time: the clock when
                      \* it was made, how its network step and its hwclock
                      \* command ended, and whether an exception left it
    period            \* history: whether the previous pass of the loop ran
                      \* in the 5 s period just before that of current_time,
                      \* and the number of page advances made in this one

vars == <<pc, conf_file, config, time_sync_status, last_sync_time, attempts,
          device, bbox, max_lines, all_items, i, groups, ret, scroll_pos,
          info_groups, current_group, last_scroll_time, current_time, now,
          frame, displayed, cleared, interrupted, ticks, sync_call, period>>

-----------------------------------------------------------------------------
(* Bounds of the model *)

MaxTicks == 4        \* iterations of the main loop
MaxGroups == 10      \* pages group_infos builds before the model stops it
MaxGlyph == 33       \* largest bottom of a font bounding box
MaxTop == 2          \* largest top of a font bounding box
Jitter == 1          \* a tick takes SleepTime or SleepTime + Jitter
StartLead == 4       \* the program starts this long before a period ends
FileWidth == 1       \* the values a well-formed config file gives
FileHeight == 64
FileScrollSpeed == 1
FileTimeout == 5
NarrowText == 1      \* pixel widths of rendered lines
WideText == 2
VeryWideText == 130

(* Program constants, in the model's units *)

DefaultWidth == 128
DefaultHeight == 32
DefaultScrollSpeed == 2
DefaultTimeout == 3
MaxAttempts == 3
RetryPause == 40
LineSpacing == 2
NumItems == 8
date_index == 1
time_index == 2
sync_index == 3
GroupSize == 3
SyncInterval == 432000
RefreshPeriod == 200
PagePeriod == 100
Window == 2
SleepTime == 2
ScrollStep == 1

DefaultServer == "ntp.ntsc.ac.cn"
FileServer == "pool.ntp.org"

\* The three strings sync_time returns (lines 49, 54, 57), in ASCII.
SyncOK == "sync: ok"
SyncRTC == "sync: RTC ok"
SyncFail == "sync: failed"
Statuses == {SyncOK, SyncRTC, SyncFail}

EmptyMap == [x \in {} |-> 0]


-----------------------------------------------------------------------------
(* Python containers *)

\* d[k] = v on a dict kept as a function over its keys
Put(d, k, v) == [x \in (DOMAIN d) \cup {k} |-> IF x = k THEN v ELSE d[x]]

\* lst[a:b] of a list kept as a function over 0..n-1, as a sequence
RECURSIVE PySliceFrom(_, _, _)
PySliceFrom(lst, a, b) ==
    IF a >= b THEN <<>> ELSE <<lst[a]>> \o PySliceFrom(lst, a + 1, b)

PyIndex(n, k) == IF k < 0 THEN (IF k + n < 0 THEN 0 ELSE k + n)
                 ELSE (IF k > n THEN n ELSE k)

\* lst[a:b] taken with its end included
PySliceInclusive(lst, a, b) ==
    LET n == Cardinality(DOMAIN lst)
    IN  PySliceFrom(lst, PyIndex(n, a), PyIndex(n, b + 1))

PySlice(lst, a, b) ==
    LET n == Cardinality(DOMAIN lst)
    IN  PySliceFrom(lst, PyIndex(n, a), PyIndex(n, b))

\* group[item[0]] = item[1] on an ordered dict kept as the sequence of its
\* entries: a key already present keeps its place and takes the new value
DictSet(group, item) ==
    IF \E k \in 1..Len(group) : group[k].key = item.key
    THEN [k \in 1..Len(group) |->
             IF group[k].key = item.key THEN item ELSE group[k]]
    ELSE Append(group, item)

RECURSIVE DictUpdate(_, _)
DictUpdate(group, items) ==
    IF items = <<>> THEN group
    ELSE DictUpdate(DictSet(group, Head(items)), Tail(items))

-----------------------------------------------------------------------------
(* log_error *)

\* What the log file does during one call: the line is appended, f.write
\* raises, or open() raises.
LogOutcomes == {"ok", "write_fails", "open_fails"}

\* lines 18-23: whether the call returns.  The try covers f.write only;
\* open() is in the with statement outside it.
log_error(outcome) == outcome # "open_fails"

LogReturns == {log_error(o) : o \in LogOutcomes}

-----------------------------------------------------------------------------
(* load_config *)

FieldNames == {"width", "height", "scroll_speed", "ntp_server", "timeout"}
FieldStates == {"absent", "bad", "ok"}

\* A config file: missing, unparseable, or readable with every field absent,
\* malformed (int() or float() or the interpolation raises) or well-formed.
MissingFile == [state |-> "missing", width |-> "absent", height |-> "absent",
                scroll_speed |-> "absent", ntp_server |-> "absent",
                timeout |-> "absent"]
UnparseableFile == [MissingFile EXCEPT !.state = "unparseable"]
ReadableFiles == [state : {"ok"}, width : FieldStates, height : FieldStates,
                  scroll_speed : FieldStates, ntp_server : FieldStates,
                  timeout : FieldStates]
AllFiles == {MissingFile, UnparseableFile} \cup ReadableFiles
GoodFile == [state |-> "ok", width |-> "ok", height |-> "ok",
             scroll_speed |-> "ok", ntp_server |-> "ok", timeout |-> "ok"]
MainFiles == {GoodFile, [GoodFile EXCEPT !.width = "bad"]}

Defaults == [width |-> DefaultWidth, height |-> DefaultHeight,
             scroll_speed |-> DefaultScrollSpeed,
             ntp_server |-> DefaultServer, timeout |-> DefaultTimeout]
FileValues == [width |-> FileWidth, height |-> FileHeight,
               scroll_speed |-> FileScrollSpeed,
               ntp_server |-> FileServer, timeout |-> FileTimeout]
NoConfig == [width |-> 0, height |-> 0, scroll_speed |-> 0,
             ntp_server |-> "", timeout |-> 0]

\* config.get(section, key, fallback=default), before the conversion
ConfigGet(file, f) == IF file[f] = "absent" THEN Defaults[f] ELSE FileValues[f]

\* the try block of load_config raises
LoadRaises(file) ==
    \/ file.state = "unparseable"
    \/ file.state = "ok" /\ \E f \in FieldNames : file[f] = "bad"

load_config(file) ==
    IF file.state = "ok" /\ ~LoadRaises(file)
    THEN [f \in FieldNames |-> ConfigGet(file, f)]
    ELSE Defaults

-----------------------------------------------------------------------------
(* sync_time *)

NtpOutcomes == {"ok", "NTPException", "gaierror", "OSError"}
CmdOutcomes == {"ok", "CalledProcessError", "OSError"}
Caught == {"NTPException", "gaierror", "CalledProcessError"}

NoCall == [at |-> -1, net |-> "none", hw |-> "none", raised |-> FALSE]

\* ntp: client.request; date: the date -s command; hw: the hwclock command;
\* log1, log2: whether the two log_error calls return.  The result says
\* whether an exception leaves sync_time and the status returned otherwise,
\* and also how the network step ended ("ok", "failed") and how the hwclock
\* command ended ("none" when it was not run, "ok", "failed").
sync_time(ntp, date, hw, log1, log2) ==
    LET net == IF ntp # "ok" THEN ntp ELSE date
        hwEnd == IF hw = "ok" THEN "ok" ELSE "failed"
    IN  IF net = "ok"
        THEN [raised |-> FALSE, status |-> SyncOK, net |-> "ok", hw |-> "none"]
        ELSE IF net \notin Caught \/ ~log1
        THEN [raised |-> TRUE, status |-> "", net |-> "failed", hw |-> "none"]
        ELSE IF hw = "ok"
        THEN [raised |-> FALSE, status |-> SyncRTC, net |-> "failed",
              hw |-> hwEnd]
        ELSE IF hw = "CalledProcessError" /\ log2
        THEN [raised |-> FALSE, status |-> SyncFail, net |-> "failed",
              hw |-> hwEnd]
        ELSE [raised |-> TRUE, status |-> "", net |-> "failed", hw |-> hwEnd]

\* the record of a call made when the clock read t
SyncCall(t, r) == [at |-> t, net |-> r.net, hw |-> r.hw, raised |-> r.raised]

-----------------------------------------------------------------------------
(* calculate_lines, get_system_info, group_infos *)

calculate_lines(height, box) ==
    LET text_height == box.bottom - box.top
    IN  height \div (text_height + LineSpacing)

\* The widths of the eight rendered lines of a snapshot, by entry.
NarrowSnapshot == [k \in 0..(NumItems - 1) |-> NarrowText]
WideSnapshot == [k \in 0..(NumItems - 1) |->
                    IF k = 0 THEN WideText
                    ELSE IF k = date_index THEN VeryWideText ELSE NarrowText]
Snapshots == {NarrowSnapshot, WideSnapshot}

\* list(info_dict.items())
Items(snapshot) ==
    [k \in 0..(NumItems - 1) |-> [key |-> k, width |-> snapshot[k]]]

\* the body of the loop with remaining_lines left at max_lines after the
\* date, time and sync entries were placed
GroupIterationNoReduce(items, idx, cap) ==
    LET atDate == idx = date_index
        first == IF atDate
                 THEN DictUpdate(<<>>, <<items[date_index], items[time_index],
                                         items[sync_index]>>)
                 ELSE <<>>
        from == IF atDate THEN sync_index + 1 ELSE idx
    IN  [group |-> DictUpdate(first, PySlice(items, from, from + cap)),
         i |-> from + cap]

\* One pass of the body of "while i < len(all_items)": the page built and
\* the next value of i.
GroupIteration(items, idx, cap) ==
    LET atDate == idx = date_index
        first == IF atDate
                 THEN DictUpdate(<<>>, <<items[date_index], items[time_index],
                                         items[sync_index]>>)
                 ELSE <<>>
        from == IF atDate THEN sync_index + 1 ELSE idx
        remaining_lines == IF atDate THEN cap - GroupSize ELSE cap
    IN  [group |-> DictUpdate(first, PySlice(items, from, from + remaining_lines)),
         i |-> from + remaining_lines]

\* line 148, with a table that is already there left as it is
ResetScrollKeep(offsets, g) ==
    IF g \in DOMAIN offsets THEN offsets ELSE Put(offsets, g, EmptyMap)

\* line 148: scroll_pos[len(groups) - 1] = {}
ResetScroll(offsets, g) == Put(offsets, g, EmptyMap)

-----------------------------------------------------------------------------
(* draw_info *)

\* lines 157-158: a missing offset is created as 0
OldPos(offsets, line) == IF line \in DOMAIN offsets THEN offsets[line] ELSE 0

\* lines 161-163
ScrollAdvanceNoWrap(pos, text_width, width) == pos - ScrollStep

ScrollAdvance(pos, text_width, width) ==
    LET p == pos - ScrollStep
    IN  IF p < -text_width THEN width ELSE p

\* the offset of a line after the frame
NewPos(pos, text_width, width) ==
    IF text_width > width THEN ScrollAdvance(pos, text_width, width) ELSE pos

\* lines 160-166: the x the line is drawn at; before and after are its
\* offset before and after the frame
LineXBefore(before, after, text_width, width) ==
    IF text_width > width THEN before ELSE (width - text_width) \div 2

LineX(before, after, text_width, width) ==
    IF text_width > width THEN after ELSE (width - text_width) \div 2

\* lines 168-169, with y_offset = 0
LineY(line, box) == line * (box.bottom + LineSpacing)

\* draw_info(draw, info_group, group_index): the offsets of the page after
\* the frame and the position of every line drawn
draw_info(info_group, offsets, width, box) ==
    LET lines == 0..(Len(info_group) - 1)
        tw(l) == info_group[l + 1].width
        after(l) == IF l \in lines THEN NewPos(OldPos(offsets, l), tw(l), width)
                    ELSE offsets[l]
    IN  [offsets |-> [l \in (DOMAIN offsets) \cup lines |-> after(l)],
         frame |-> [k \in 1..Len(info_group) |->
                      [x |-> LineX(OldPos(offsets, k - 1), after(k - 1),
                                   tw(k - 1), width),
                       y |-> LineY(k - 1, box)]]]

-----------------------------------------------------------------------------
(* main *)

Terminal == {"terminated", "failed", "crashed"}

\* lines 203-204: the generic handler logs and main returns ("failed");
\* when log_error itself raises, the exception leaves main ("crashed")
Handler(logOK) == IF logOK THEN "failed" ELSE "crashed"

Fonts == {[top |-> 2, bottom |-> 14], [top |-> 0, bottom |-> 31],
          [top |-> 0, bottom |-> 6]}
AllBBoxes == {b \in [top : 0..MaxTop, bottom : 1..MaxGlyph] : b.top < b.bottom}

StartTimes == {PagePeriod - StartLead, RefreshPeriod - StartLead}
Delays == {SleepTime, SleepTime + Jitter, SleepTime + SyncInterval}

\* line 61
LoadConfig ==
    /\ pc = "load_config"
    /\ \E logOK \in LogReturns, logOK2 \in LogReturns :
         IF LoadRaises(conf_file) /\ ~logOK
         THEN /\ pc' = Handler(logOK2)
              /\ UNCHANGED config
         ELSE /\ config' = load_config(conf_file)
              /\ pc' = "sync_time"
    /\ interrupted' = FALSE
    /\ UNCHANGED <<conf_file, time_sync_status, last_sync_time, attempts,
                   device, bbox, max_lines, all_items, i, groups, ret,
                   scroll_pos, info_groups, current_group, last_scroll_time,
                   current_time, now, frame, displayed, cleared, ticks,
                   sync_call, period>>

\* lines 65-66
SyncTime ==
    /\ pc = "sync_time"
    /\ \E ntp \in NtpOutcomes, date \in CmdOutcomes, hw \in CmdOutcomes,
          log1 \in LogReturns, log2 \in LogReturns, logOK \in LogReturns :
         LET r == sync_time(ntp, date, hw, log1, log2)
         IN  IF r.raised
             THEN /\ pc' = Handler(logOK)
                  /\ sync_call' = SyncCall(now, r)
                  /\ UNCHANGED <<time_sync_status, last_sync_time>>
             ELSE /\ time_sync_status' = r.status
                  /\ sync_call' = SyncCall(now, r)
                  /\ last_sync_time' = now
                  /\ pc' = "init_display"
    /\ interrupted' = FALSE
    /\ UNCHANGED <<conf_file, config, attempts, device, bbox, max_lines,
                   all_items, i, groups, ret, scroll_pos, info_groups,
                   current_group, last_scroll_time, current_time, now, frame,
                   displayed, cleared, ticks, period>>

\* lines 69-78: one pass of the retry loop
InitAttempt ==
    /\ pc = "init_display"
    /\ attempts < MaxAttempts
    /\ attempts' = attempts + 1
    /\ \E ok \in BOOLEAN, logOK \in LogReturns, logOK2 \in LogReturns :
         IF ok
         THEN /\ device' = TRUE
              /\ pc' = "load_font"
              /\ UNCHANGED now
         ELSE IF ~logOK
         THEN /\ pc' = Handler(logOK2)
              /\ UNCHANGED <<device, now>>
         ELSE /\ now' = now + RetryPause
              /\ UNCHANGED device
              /\ pc' = IF attempts' = MaxAttempts THEN Handler(logOK2)
                       ELSE "init_display"
    /\ interrupted' = FALSE
    /\ UNCHANGED <<conf_file, config, time_sync_status, last_sync_time, bbox,
                   max_lines, all_items, i, groups, ret, scroll_pos,
                   info_groups, current_group, last_scroll_time,
                   current_time, frame, displayed, cleared, ticks, sync_call,
                   period>>

\* lines 81-90
LoadFont ==
    /\ pc = "load_font"
    /\ \E b \in Fonts : bbox' = b
    /\ pc' = "calculate_lines"
    /\ interrupted' = FALSE
    /\ UNCHANGED <<conf_file, config, time_sync_status, last_sync_time,
                   attempts, device, max_lines, all_items, i, groups, ret,
                   scroll_pos, info_groups, current_group, last_scroll_time,
                   current_time, now, frame, displayed, cleared, ticks,
                   sync_call, period>>

\* lines 93-98
CalculateLines ==
    /\ pc = "calculate_lines"
    /\ max_lines' = calculate_lines(config.height, bbox)
    /\ ret' = "init"
    /\ pc' = "get_system_info"
    /\ interrupted' = FALSE
    /\ UNCHANGED <<conf_file, config, time_sync_status, last_sync_time,
                   attempts, device, bbox, all_items, i, groups, scroll_pos,
                   info_groups, current_group, last_scroll_time,
                   current_time, now, frame, displayed, cleared, ticks,
                   sync_call, period>>

\* lines 101-120 and the entry of group_infos, lines 124-131
GetSystemInfo ==
    /\ pc = "get_system_info"
    /\ \E snapshot \in Snapshots : all_items' = Items(snapshot)
    /\ groups' = <<>>
    /\ i' = 0
    /\ pc' = "group_infos"
    /\ interrupted' = FALSE
    /\ UNCHANGED <<conf_file, config, time_sync_status, last_sync_time,
                   attempts, device, bbox, max_lines, ret, scroll_pos,
                   info_groups, current_group, last_scroll_time,
                   current_time, now, frame, displayed, cleared, ticks,
                   sync_call, period>>

\* lines 132-148: one pass of the while loop
GroupIter ==
    /\ pc = "group_infos"
    /\ i < Cardinality(DOMAIN all_items)
    /\ Len(groups) < MaxGroups
    /\ LET r == GroupIteration(all_items, i, max_lines)
       IN  /\ groups' = Append(groups, r.group)
           /\ i' = r.i
           /\ scroll_pos' = ResetScroll(scroll_pos, Len(groups))
    /\ interrupted' = FALSE
    /\ UNCHANGED <<pc, conf_file, config, time_sync_status, last_sync_time,
                   attempts, device, bbox, max_lines, all_items, ret,
                   info_groups, current_group, last_scroll_time,
                   current_time, now, frame, displayed, cleared, ticks,
                   sync_call, period>>

\* line 149 and the statements after the call: lines 173-175, 183-184, 194
GroupReturn ==
    /\ pc = "group_infos"
    /\ i >= Cardinality(DOMAIN all_items)
    /\ info_groups' = groups
    /\ IF ret = "init"
       THEN /\ current_group' = 0
            /\ last_scroll_time' = now
            /\ pc' = "loop"
            /\ UNCHANGED last_sync_time
       ELSE IF ret = "sync"
       THEN /\ last_sync_time' = current_time
            /\ pc' = "render"
            /\ UNCHANGED <<current_group, last_scroll_time>>
       ELSE /\ pc' = "advance"
            /\ UNCHANGED <<current_group, last_scroll_time, last_sync_time>>
    /\ interrupted' = FALSE
    /\ UNCHANGED <<conf_file, config, time_sync_status, attempts, device,
                   bbox, max_lines, all_items, i, groups, ret, scroll_pos,
                   current_time, now, frame, displayed, cleared, ticks,
                   sync_call, period>>

\* line 181: the periodic sync is due
SyncDueAtOnce(cur, last) == cur - last > 0

SyncDue(cur, last) == cur - last > SyncInterval

\* lines 178-184: the top of a pass of the main loop
LoopSync ==
    /\ pc = "loop"
    /\ current_time' = now
    /\ IF SyncDue(now, last_sync_time)
       THEN \E ntp \in NtpOutcomes, date \in CmdOutcomes, hw \in CmdOutcomes,
               log1 \in LogReturns, log2 \in LogReturns, logOK \in LogReturns :
              LET r == sync_time(ntp, date, hw, log1, log2)
              IN  IF r.raised
                  THEN /\ pc' = Handler(logOK)
                       /\ sync_call' = SyncCall(now, r)
                       /\ UNCHANGED <<time_sync_status, ret>>
                  ELSE /\ time_sync_status' = r.status
                       /\ sync_call' = SyncCall(now, r)
                       /\ ret' = "sync"
                       /\ pc' = "get_system_info"
       ELSE /\ pc' = "render"
            /\ UNCHANGED <<time_sync_status, ret, sync_call>>
    /\ period' = IF ticks = 0 THEN [full |-> FALSE, advances |-> 0]
                 ELSE IF now \div PagePeriod # current_time \div PagePeriod
                 THEN [full |-> now \div PagePeriod = current_time \div PagePeriod + 1,
                       advances |-> 0]
                 ELSE period
    /\ interrupted' = FALSE
    /\ UNCHANGED <<conf_file, config, last_sync_time, attempts, device, bbox,
                   max_lines, all_items, i, groups, scroll_pos, info_groups,
                   current_group, last_scroll_time, now, frame, displayed,
                   cleared, ticks>>

\* info_groups[current_group] and scroll_pos[group_index] exist
CanRender ==
    /\ current_group < Len(info_groups)
    /\ current_group \in DOMAIN scroll_pos

\* lines 186-191
Render ==
    /\ pc = "render"
    /\ IF current_time - last_scroll_time > config.scroll_speed
       THEN IF CanRender
            THEN LET r == draw_info(info_groups[current_group + 1],
                                    scroll_pos[current_group],
                                    config.width, bbox)
                 IN  /\ scroll_pos' = Put(scroll_pos, current_group, r.offsets)
                     /\ frame' = r.frame
                     /\ displayed' = TRUE
                     /\ last_scroll_time' = current_time
                     /\ pc' = "refresh"
            ELSE \E logOK \in LogReturns :
                     /\ pc' = Handler(logOK)
                     /\ UNCHANGED <<scroll_pos, frame, displayed,
                                    last_scroll_time>>
       ELSE /\ pc' = "refresh"
            /\ UNCHANGED <<scroll_pos, frame, displayed, last_scroll_time>>
    /\ interrupted' = FALSE
    /\ UNCHANGED <<conf_file, config, time_sync_status, last_sync_time,
                   attempts, device, bbox, max_lines, all_items, i, groups,
                   ret, info_groups, current_group, current_time, now,
                   cleared, ticks, sync_call, period>>

\* lines 193-194
Refresh ==
    /\ pc = "refresh"
    /\ IF current_time % RefreshPeriod < Window
       THEN /\ ret' = "refresh"
            /\ pc' = "get_system_info"
       ELSE /\ pc' = "advance"
            /\ UNCHANGED ret
    /\ interrupted' = FALSE
    /\ UNCHANGED <<conf_file, config, time_sync_status, last_sync_time,
                   attempts, device, bbox, max_lines, all_items, i, groups,
                   scroll_pos, info_groups, current_group, last_scroll_time,
                   current_time, now, frame, displayed, cleared, ticks,
                   sync_call, period>>

\* line 197, without the wrap to the first page
NextGroupNoWrap(group, n) == group + 1

\* line 197
NextGroup(group, n) == (group + 1) % n

\* lines 196-197
Advance ==
    /\ pc = "advance"
    /\ IF current_time % PagePeriod < Window
       THEN /\ current_group' = NextGroup(current_group, Len(info_groups))
            /\ period' = [period EXCEPT !.advances = @ + 1]
       ELSE UNCHANGED <<current_group, period>>
    /\ pc' = "sleep"
    /\ interrupted' = FALSE
    /\ UNCHANGED <<conf_file, config, time_sync_status, last_sync_time,
                   attempts, device, bbox, max_lines, all_items, i, groups,
                   ret, scroll_pos, info_groups, last_scroll_time,
                   current_time, now, frame, displayed, cleared, ticks,
                   sync_call>>

\* line 199: the sleep and the time the pass took
Sleep ==
    /\ pc = "sleep"
    /\ ticks < MaxTicks
    /\ \E d \in Delays : now' = now + d
    /\ ticks' = ticks + 1
    /\ pc' = "loop"
    /\ interrupted' = FALSE
    /\ UNCHANGED <<conf_file, config, time_sync_status, last_sync_time,
                   attempts, device, bbox, max_lines, all_items, i, groups,
                   ret, scroll_pos, info_groups, current_group,
                   last_scroll_time, current_time, frame, displayed, cleared,
                   sync_call, period>>

\* A KeyboardInterrupt is delivered.  Lines 201-202 handle it, unless it is
\* raised inside one of the bare "except:" blocks of load_font (lines 82-88)
\* or get_system_info (lines 103-109), which swallow it.
Interrupt ==
    /\ pc \notin Terminal
    /\ interrupted' = TRUE
    /\ \/ /\ ~device
          /\ pc' = "crashed"       \* device.clear() raises UnboundLocalError
          /\ UNCHANGED cleared
       \/ /\ device
          /\ cleared' = TRUE
          /\ pc' = "terminated"
       \/ /\ pc \in {"load_font", "get_system_info"}
          /\ UNCHANGED <<pc, cleared>>
    /\ UNCHANGED <<conf_file, config, time_sync_status, last_sync_time,
                   attempts, device, bbox, max_lines, all_items, i, groups,
                   ret, scroll_pos, info_groups, current_group,
                   last_scroll_time, current_time, now, frame, displayed,
                   ticks, sync_call, period>>

-----------------------------------------------------------------------------
(* Specifications *)

InitCommon ==
    /\ time_sync_status = ""
    /\ last_sync_time = 0
    /\ max_lines = 0
    /\ all_items = EmptyMap
    /\ i = 0
    /\ groups = <<>>
    /\ ret = "init"
    /\ scroll_pos = EmptyMap
    /\ info_groups = <<>>
    /\ current_group = 0
    /\ last_scroll_time = 0
    /\ current_time = 0
    /\ frame = <<>>
    /\ displayed = FALSE
    /\ cleared = FALSE
    /\ interrupted = FALSE
    /\ ticks = 0
    /\ sync_call = NoCall
    /\ period = [full |-> FALSE, advances |-> 0]

\* The whole program, from the entry of main.
Init ==
    /\ pc = "load_config"
    /\ conf_file \in MainFiles
    /\ config = NoConfig
    /\ attempts = 0
    /\ device = FALSE
    /\ bbox = [top |-> 0, bottom |-> 0]
    /\ now \in StartTimes
    /\ InitCommon

Next ==
    \/ LoadConfig
    \/ SyncTime
    \/ InitAttempt
    \/ LoadFont
    \/ CalculateLines
    \/ GetSystemInfo
    \/ GroupIter
    \/ GroupReturn
    \/ LoopSync
    \/ Render
    \/ Refresh
    \/ Advance
    \/ Sleep
    \/ Interrupt

Spec == Init /\ [][Next]_vars

\* load_config alone, over every config file.
InitConfig ==
    /\ pc = "load_config"
    /\ conf_file \in AllFiles
    /\ config = NoConfig
    /\ attempts = 0
    /\ device = FALSE
    /\ bbox = [top |-> 0, bottom |-> 0]
    /\ now = 0
    /\ InitCommon

NextConfig == LoadConfig

SpecConfig == InitConfig /\ [][NextConfig]_vars

\* The pager alone, from the state after the font was loaded, over every
\* bounding box of the font.
InitPager ==
    /\ pc = "calculate_lines"
    /\ conf_file \in {MissingFile, GoodFile}
    /\ config = load_config(conf_file)
    /\ attempts = 1
    /\ device = TRUE
    /\ bbox \in AllBBoxes
    /\ now = 0
    /\ InitCommon

NextPager ==
    \/ CalculateLines
    \/ GetSystemInfo
    \/ GroupIter
    \/ GroupReturn

SpecPager == InitPager /\ [][NextPager]_vars

-----------------------------------------------------------------------------
(* Properties *)

\* the keys of a page, as a set and in order
PageKeys(page) == {page[k].key : k \in 1..Len(page)}
KeySeq(page) == [k \in 1..Len(page) |-> page[k].key]

RECURSIVE Flatten(_)
Flatten(pages) ==
    IF pages = <<>> THEN <<>> ELSE KeySeq(Head(pages)) \o Flatten(Tail(pages))

Trio == {date_index, time_index, sync_index}
AllKeys == [k \in 1..NumItems |-> k - 1]

\* group_infos has returned the pages of the startup snapshot
Paged == pc = "loop" /\ ticks = 0

\* C1: for every capacity >= 3 the pages returned by group_infos hold the
\* date, time and sync-status entries on one and the same page.
C1_TrioOnOnePage ==
    (Paged /\ max_lines >= 3) =>
        \E g \in 1..Len(info_groups) : Trio \subseteq PageKeys(info_groups[g])

\* C2: for capacity 1 and 2 no page boundary falls between the date entry
\* and the time entry: one page holds the date, time and sync-status
\* entries, and it holds exactly these three lines.
C2_ForcedGroup ==
    (Paged /\ max_lines \in {1, 2}) =>
        /\ \E g \in 1..Len(info_groups) : PageKeys(info_groups[g]) = Trio
        /\ \A g \in 1..Len(info_groups) :
             date_index \in PageKeys(info_groups[g])
                 => time_index \in PageKeys(info_groups[g])

\* C3: for every capacity >= 1 the pages partition the snapshot: the pages
\* joined in order are the eight entries in their original order, each once.
C3_Partition ==
    (Paged /\ max_lines >= 1) => Flatten(info_groups) = AllKeys

\* C4: sync_time never raises: every call of it, at startup and on the
\* six-hour re-sync, returns to its caller with one of the three status
\* strings, whatever the NTP request and the two clock commands do.
C4_SyncNeverRaises ==
    [][((pc = "sync_time" \/ (pc = "loop" /\ now - last_sync_time > SyncInterval))
          /\ pc' # pc /\ ~interrupted')
       => (pc' \in {"init_display", "get_system_info"}
             /\ time_sync_status' \in Statuses)]_vars

\* C5: a KeyboardInterrupt delivered in any state of the program ends it in
\* TERMINATED: device.clear() was called and main returned.
C5_InterruptTerminates ==
    interrupted => (pc = "terminated" /\ cleared)

\* C6: load_config resolves every field on its own: the file's value when
\* the field is present and well-formed, its default otherwise.
C6_FieldsIndependent ==
    pc = "sync_time" =>
        \A f \in FieldNames :
            config[f] = IF conf_file.state = "ok" /\ conf_file[f] = "ok"
                        THEN FileValues[f] ELSE Defaults[f]

\* C7: display initialisation makes at most 3 attempts; a success goes on
\* towards RUNNING, a failure before the third attempt is followed by the
\* next attempt, the third failure ends the program in FAILED, and then no
\* display() or clear() call was made.
C7_InitRetry ==
    /\ [][(attempts' = attempts + 1) =>
            /\ attempts' <= MaxAttempts
            /\ device' => pc' = "load_font"
            /\ (~device' /\ attempts' < MaxAttempts) => pc' = "init_display"
            /\ (~device' /\ attempts' = MaxAttempts) => pc' = "failed"]_vars
    /\ []((pc = "failed" /\ ~device) => (~displayed /\ ~cleared))

\* the main loop draws a frame in this step
Drawing ==
    /\ pc = "render"
    /\ current_time - last_scroll_time > config.scroll_speed
    /\ pc' = "refresh"

\* the width of line l of page g, and whether it scrolls
TextWidth(g, l) == info_groups[g + 1][l + 1].width
Scrolls(g, l) == TextWidth(g, l) > config.width
LinesOf(g) == 0..(Len(info_groups[g + 1]) - 1)

\* C8: a render moves the offset of every line wider than the panel by
\* exactly 1 to the left, or to panel_width when that is below -text_width;
\* and the offset of every such (page, line) lies in
\* [-text_width, panel_width].
C8_ScrollRange ==
    /\ [][Drawing =>
            \A l \in LinesOf(current_group) :
                Scrolls(current_group, l) =>
                    LET old == OldPos(scroll_pos[current_group], l)
                        new == scroll_pos'[current_group][l]
                    IN  new = IF old - 1 < -TextWidth(current_group, l)
                              THEN config.width ELSE old - 1]_vars
    /\ [](\A g \in DOMAIN scroll_pos : \A l \in DOMAIN scroll_pos[g] :
            (g < Len(info_groups) /\ l \in LinesOf(g) /\ Scrolls(g, l)) =>
                /\ scroll_pos[g][l] >= -TextWidth(g, l)
                /\ scroll_pos[g][l] <= config.width)

\* C8 witness: a line wider than the panel has wrapped to panel_width.
C8_Wrapped ==
    /\ displayed
    /\ \E g \in DOMAIN scroll_pos : \E l \in DOMAIN scroll_pos[g] :
         /\ g < Len(info_groups) /\ l \in LinesOf(g) /\ Scrolls(g, l)
         /\ scroll_pos[g][l] = config.width

\* C9 as stated: a line wider than the panel is drawn at the offset held
\* before the frame.
C9_DrawnAtOffsetBefore ==
    [][Drawing =>
         \A l \in LinesOf(current_group) :
             Scrolls(current_group, l) =>
                 frame'[l + 1].x = OldPos(scroll_pos[current_group], l)]_vars

\* C9 as amended: a line wider than the panel is drawn at the offset held
\* after the frame's decrement and wrap; the first render of a line after
\* its offset was reset draws it at x = -1.
C9_DrawnAtOffsetAfter ==
    [][Drawing =>
         \A l \in LinesOf(current_group) :
             Scrolls(current_group, l) =>
                 /\ frame'[l + 1].x = scroll_pos'[current_group][l]
                 /\ l \notin DOMAIN scroll_pos[current_group]
                        => frame'[l + 1].x = -ScrollStep]_vars

\* C9 witness: a frame was just drawn with a scrolling line at x = -1, its
\* offset after the first decrement.
C9_FirstFrame ==
    /\ pc = "refresh" /\ displayed /\ last_scroll_time = current_time
    /\ current_group < Len(info_groups)
    /\ \E l \in LinesOf(current_group) :
         /\ Scrolls(current_group, l)
         /\ l \in DOMAIN scroll_pos[current_group]
         /\ scroll_pos[current_group][l] = -ScrollStep
         /\ frame[l + 1].x = -ScrollStep

\* C10: in every 5-second period that began while the loop was running,
\* the page index has advanced exactly once when a pass of the loop ends.
C10_OncePerPeriod ==
    (pc = "sleep" /\ period.full) => period.advances = 1


\* C11: when the capacity is at least 3 every page returned by group_infos
\* holds at most capacity lines; when it is below 3 the only page that holds
\* more lines than the capacity is the forced group of the date, time and
\* sync-status entries, and that page holds exactly three lines.
C11_PageSize ==
    Paged =>
        \A g \in 1..Len(info_groups) :
            \/ Len(info_groups[g]) <= max_lines
            \/ /\ max_lines < GroupSize
               /\ PageKeys(info_groups[g]) = Trio
               /\ Len(info_groups[g]) = GroupSize

\* C11 witness: with capacity 1 the pages were returned, and the forced
\* group is among them with its three lines.
C11_ForcedPage ==
    /\ Paged /\ max_lines = 1
    /\ \E g \in 1..Len(info_groups) :
         PageKeys(info_groups[g]) = Trio /\ Len(info_groups[g]) > max_lines

\* C12: every rebuild of the pages by group_infos (at startup, on the
\* 10-second refresh and on the six-hour re-sync) leaves every page of the
\* new sequence with an empty scroll-offset table, so the first render of
\* any line of any page after the rebuild starts from offset 0.
C12_RebuildResets ==
    [][(pc = "group_infos" /\ pc' \in {"loop", "render", "advance"}) =>
         \A g \in 0..(Len(info_groups') - 1) :
             /\ g \in DOMAIN scroll_pos'
             /\ scroll_pos'[g] = EmptyMap
             /\ \A l \in 0..(Len(info_groups'[g + 1]) - 1) :
                    OldPos(scroll_pos'[g], l) = 0]_vars

\* C12 witness: the 10-second refresh has just rebuilt the pages after a
\* frame was drawn with a scrolling line moved off 0, and no page has an
\* offset left.
C12_ResetAfterScroll ==
    /\ pc = "advance" /\ ret = "refresh" /\ displayed
    /\ \E k \in 1..Len(frame) : frame[k].x = -ScrollStep
    /\ Len(info_groups) > 1
    /\ \A g \in 0..(Len(info_groups) - 1) :
           g \in DOMAIN scroll_pos /\ scroll_pos[g] = EmptyMap

\* a step makes a call of sync_time
SyncAttempt == sync_call' # sync_call

\* C13: sync_time is called once in INIT, before the display is
\* initialised, and after that in a pass of the main loop exactly when more
\* than 21600 s have passed on the clock since the previous call, whether
\* that call succeeded or failed; no pass calls it earlier.
C13_SyncSchedule ==
    /\ [](pc = "sync_time" => (~device /\ attempts = 0 /\ sync_call = NoCall))
    /\ []((attempts > 0 \/ device) => sync_call # NoCall)
    /\ [][SyncAttempt <=>
            /\ ~interrupted'
            /\ \/ pc = "sync_time"
               \/ pc = "loop" /\ now - sync_call.at > SyncInterval]_vars

\* C13 witness: a pass of the loop has called sync_time more than 21600 s
\* after the previous call; the call returned the failure status and the
\* loop goes on to rebuild the pages.
C13_ResyncAfterFailure ==
    /\ pc = "get_system_info" /\ ret = "sync" /\ ticks > 0
    /\ time_sync_status = SyncFail
    /\ sync_call.at = current_time
    /\ sync_call.at - last_sync_time > SyncInterval

\* C14: sync_time runs the hwclock fallback only after its network step has
\* failed: a network success returns the network-success status without
\* running hwclock, a network failure followed by a hwclock success returns
\* the RTC-success status, and a failure of both returns the failure status.
C14_Fallback ==
    sync_call # NoCall =>
        /\ sync_call.hw # "none" => sync_call.net = "failed"
        /\ sync_call.net = "ok" =>
               /\ sync_call.hw = "none" /\ ~sync_call.raised
               /\ time_sync_status = SyncOK
        /\ (sync_call.net = "failed" /\ sync_call.hw = "ok") =>
               ~sync_call.raised /\ time_sync_status = SyncRTC
        /\ (sync_call.net = "failed" /\ sync_call.hw = "failed") =>
               ~sync_call.raised /\ time_sync_status = SyncFail

\* the program has ended through an exception other than a KeyboardInterrupt
EndedByError == pc \in {"failed", "crashed"} /\ ~interrupted

\* C15: device.clear() is called only on the interrupt path: when the
\* program ends through any exception other than an interrupt, the error
\* was logged and main returned (FAILED), and no clear() was made.
C15_ClearOnlyOnInterrupt ==
    /\ cleared => (interrupted /\ pc = "terminated")
    /\ EndedByError => (pc = "failed" /\ ~cleared)

\* the line step calculate_lines divides the panel height by
CapacityStep(box) == (box.bottom - box.top) + LineSpacing

\* C16: draw_info draws line i of a page at y = i * (glyph_height + 2),
\* with the glyph_height (bottom minus top of the font's bounding box) that
\* calculate_lines uses, so that every line of a page of at most capacity
\* lines lies inside the panel height.
C16_LineStep ==
    displayed =>
        \A k \in 1..Len(frame) :
            /\ frame[k].y = (k - 1) * CapacityStep(bbox)
            /\ Len(frame) <= max_lines =>
                   frame[k].y + (bbox.bottom - bbox.top) <= config.height

\* C17: with capacity 4 and the eight-entry snapshot group_infos returns
\* exactly two pages: IP, date, time, sync; then load, temp, mem, disk.
C17_CapacityFour ==
    (Paged /\ max_lines = 4) =>
        /\ Len(info_groups) = 2
        /\ KeySeq(info_groups[1]) = <<0, date_index, time_index, sync_index>>
        /\ KeySeq(info_groups[2]) = <<4, 5, 6, 7>>

\* C17 witness: the pages of a panel of capacity 4 were returned.
C17_FourLinePanel ==
    /\ Paged /\ max_lines = 4
    /\ Len(info_groups) = 2
    /\ date_index \in PageKeys(info_groups[1])

\* C18: a failure to open or to write the log file never leaves log_error,
\* so every caller that logs an error goes on as if the line had been
\* written: load_config returns its configuration and main goes on to the
\* time sync, and no exception leaves main through a log_error call (an
\* exception leaves main on the interrupt path only).
C18_LogNeverPropagates ==
    [][~interrupted' =>
         /\ pc = "load_config" =>
                (pc' = "sync_time" /\ config' = load_config(conf_file))
         /\ pc' # "crashed"]_vars

\* C19: the program leaves INIT for every panel height and glyph height,
\* capacity 0, 1 and 2 included: building the pages terminates, because
\* every pass of the while loop of group_infos moves i forward, so that the
\* loop ends after at most len(all_items) passes with a finite sequence of
\* pages.
C19_GroupInfosTerminates ==
    [][(pc = "group_infos" /\ pc' = "group_infos" /\ ~interrupted') =>
         (i' > i /\ Len(groups') <= NumItems)]_vars

\* the main loop was entered and the program has not ended
Running ==
    \/ pc \in {"loop", "render", "refresh", "advance", "sleep"}
    \/ pc \in {"get_system_info", "group_infos"} /\ ret # "init"

\* C20: in every state of RUNNING, whatever page rebuilds, re-syncs, page
\* advances and renders came before, current_group is a valid index of
\* info_groups and scroll_pos has a table for it, so a render never fails
\* on a missing page or a missing offset table.
C20_ValidPage ==
    /\ [](Running =>
            /\ 0 <= current_group /\ current_group < Len(info_groups)
            /\ current_group \in DOMAIN scroll_pos)
    /\ [][(pc = "render" /\ ~interrupted') => pc' = "refresh"]_vars

\* C20 witness: after a frame was drawn, the pages were rebuilt by the
\* 10-second refresh and the page index was advanced off the first page.
C20_AdvancedAfterRebuild ==
    /\ pc = "sleep" /\ ret = "refresh" /\ displayed
    /\ current_group >= 1
    /\ period.advances >= 1
    /\ scroll_pos[current_group] = EmptyMap
=============================================================================
